---- MODULE Spec2Model ----
(***************************************************************************)
(* A model of export.py, the OpenBeta parquet exporter: the country        *)
(* orchestrator (fetch_all_climbs), the recursive region splitter          *)
(* (fetch_region), the paginating region fetcher (fetch_region_climbs),    *)
(* the region filter and the export driver (main, export_to_parquet).      *)
(*                                                                         *)
(* The program is single-threaded; every action below is one network       *)
(* request together with the code that handles its response, or one call   *)
(* or return of fetch_region.  The GraphQL server is the environment: it   *)
(* answers from a fixed area tree and may fail any request.                *)
(*                                                                         *)
(* Conventions.  HTTP status codes are written as strings ("200", "503")   *)
(* so that the error value of fetch_region_climbs can hold a status or the *)
(* marker "GraphQL Error"; Python's None is the string "None".  A JSON     *)
(* field that is missing, null or empty is falsy in every test the code    *)
(* makes of it: path tokens are then << >>, a uuid is "", and a coordinate *)
(* is "null" (the coordinate "0" is present but falsy too).                *)
(***************************************************************************)
EXTENDS Integers, Sequences, FiniteSets, TLC

\* ------------------------------------------------------------------ bounds

\* The page size of the leaf-area query.  export.py:97 sets it to 500; the
\* code only adds it to the offset and compares page lengths with it, so the
\* model scales it down to keep pages small.
AREAS_PAGE_SIZE == 2

\* The number of requests the server may fail in one run.
MaxFaults == 3

\* --------------------------------------------------------------- constants

LARGE_REGIONS == {"USA", "Canada"}

None == "None"

\* ------------------------------------------------- the server's area tree

Climb(uuid, pathTokens, lat, lng) ==
    [uuid |-> uuid, pathTokens |-> pathTokens, lat |-> lat, lng |-> lng]

\* A leaf area: where it sits in the tree (path), and the fields the leaf-area
\* query returns for it.
Area(path, pathTokens, lat, lng, climbs) ==
    [path |-> path, pathTokens |-> pathTokens, lat |-> lat, lng |-> lng,
     climbs |-> climbs]

Yosemite == <<"USA", "California", "Yosemite">>
Tahoe    == <<"USA", "California", "Tahoe">>
RedRock  == <<"USA", "Nevada", "RedRock">>
Reno     == <<"USA", "Nevada", "Reno">>
Vegas    == <<"USA", "Nevada", "Vegas">>
Kappa    == <<"Fakistan", "Canada", "Kappa">>
Hotel    == <<"Fakistan", "Hunza", "Hotel">>
Hut      == <<"Fakistan", "Hunza", "Hut">>

\* Every leaf area of the server, in the order the leaf-area query lists them.
LeafAreas ==
    << Area(Yosemite, Yosemite, "37", "-119",
            << Climb("c1", Yosemite, "38", "-120"),
               Climb("c2", << >>, "null", "null") >>),
       Area(Tahoe, Tahoe, "39", "-120",
            << Climb("c3", Tahoe, "0", "-121") >>),
       Area(RedRock, RedRock, "36", "-115",
            << Climb("c4", RedRock, "36", "-115"),
               Climb("c5", << >>, "null", "-116"),
               Climb("c6", RedRock, "null", "null") >>),
       Area(Reno, Reno, "39", "-119", << >>),
       Area(Vegas, Vegas, "null", "null",
            << Climb("c7", Vegas, "null", "null"),
               Climb("c8", << >>, "36", "-115") >>),
       Area(Kappa, Kappa, "35", "76",
            << Climb("c9", Kappa, "35", "76") >>),
       Area(Hotel, Hotel, "36", "74",
            << Climb("c10", << >>, "null", "null") >>),
       Area(Hut, << >>, "0", "75",
            << Climb("c11", << >>, "null", "null") >>) >>

\* The children of every area of the tree; a leaf area has none.
TreeChildren(path) ==
    CASE path = <<"USA">>                   -> <<"California", "Nevada">>
      [] path = <<"USA", "California">>     -> <<"Yosemite", "Tahoe">>
      [] path = <<"USA", "Nevada">>         -> <<"RedRock", "Reno", "Vegas">>
      [] path = <<"Fakistan">>              -> <<"Canada", "Hunza">>
      [] path = <<"Fakistan", "Canada">>    -> <<"Kappa">>
      [] path = <<"Fakistan", "Hunza">>     -> <<"Hotel", "Hut">>
      [] OTHER                              -> << >>

Country(areaName, uuid) == [areaName |-> areaName, uuid |-> uuid]

\* The answers the server may give to the countries query.
Listings ==
    { << Country("USA", "u-usa"), Country("Fakistan", "u-fak") >>,
      << Country("Fakistan", "u-fak"), Country("USA", "u-usa") >>,
      << >> }

UuidPath(uuid) ==
    CASE uuid = "u-usa" -> <<"USA">>
      [] uuid = "u-fak" -> <<"Fakistan">>
      [] OTHER          -> << >>

\* ------------------------------------------------ the server's answers

IsPrefix(p, s) == Len(p) <= Len(s) /\ SubSeq(s, 1, Len(p)) = p

Min(a, b) == IF a < b THEN a ELSE b

Range(s) == {s[k] : k \in DOMAIN s}

\* The leaf-area query: the leaf areas below `tokens`, `limit` of them from
\* `offset` on.
AreasQuery(tokens, limit, offset) ==
    LET matching == SelectSeq(LeafAreas, LAMBDA a : IsPrefix(tokens, a.path))
    IN  SubSeq(matching, offset + 1, Min(offset + limit, Len(matching)))

\* The two child-discovery queries, when the server answers them.
ChildrenByUuidQuery(uuid) == TreeChildren(UuidPath(uuid))

ChildrenByPathQuery(tokens) == TreeChildren(tokens)

\* What can happen to a request: an answer, a timeout, a gateway or overload
\* status, a GraphQL "errors" body, or another exception of the HTTP library
\* or the JSON decoder (connection error, unparsable body).
Outcomes == {"ok", "timeout", "502", "503", "504", "graphql", "exception"}

IsFault(o) == o # "ok"

\* -------------------------------------------------- fetch_region_climbs

\* `not x.get("lat")`: a missing, null or zero coordinate is falsy.
falsy_coord(x) == x \in {"null", "0"}

\* enrich_climb with the area's path tokens never inherited.
enrich_climb_no_tokens(climb, area) ==
    IF falsy_coord(climb.lat) /\ ~falsy_coord(area.lat)
    THEN [climb EXCEPT !.lat = area.lat, !.lng = area.lng]
    ELSE climb

\* Lines 201-209: the climb inherits the area's path tokens and coordinates.
enrich_climb(climb, area) ==
    LET c1 == IF climb.pathTokens = << >>
              THEN [climb EXCEPT !.pathTokens = area.pathTokens]
              ELSE climb
    IN  IF falsy_coord(c1.lat) /\ ~falsy_coord(area.lat)
        THEN [c1 EXCEPT !.lat = area.lat, !.lng = area.lng]
        ELSE c1

area_climbs(area) ==
    [k \in 1..Len(area.climbs) |-> enrich_climb(area.climbs[k], area)]

RECURSIVE flatten_areas(_)
flatten_areas(areas) ==
    IF areas = << >> THEN << >>
    ELSE area_climbs(Head(areas)) \o flatten_areas(Tail(areas))

\* extract_climbs with the list started afresh on every page.
extract_climbs_reset(all_climbs, areas) == flatten_areas(areas)

\* Lines 199-211: every climb of every area of the page is appended.
extract_climbs(all_climbs, areas) == all_climbs \o flatten_areas(areas)

\* last_page with only an empty page taken for the last one.
last_page_empty(areas) == areas = << >>

\* last_page with the end of the data never noticed.
last_page_never(areas) == FALSE

\* Line 214: a short page is the last one.
last_page(areas) == Len(areas) < AREAS_PAGE_SIZE

\* Line 217.
next_offset(offset) == offset + AREAS_PAGE_SIZE

\* The error value of a failed request: a timeout is reported as 504 (line
\* 174), a status as itself (line 182), an "errors" body as a marker (190).
error_of(o) ==
    CASE o = "timeout" -> "504"
      [] o = "graphql" -> "GraphQL Error"
      [] OTHER         -> o

\* The requests of activation f for the page at its current offset.
Attempts(f) ==
    Cardinality({k \in DOMAIN f.reqs : f.reqs[k].kind = "areas"
                                       /\ f.reqs[k].offset = f.offset})

\* The failures the design calls transient.
Transient == {"timeout", "502", "503", "504"}

\* page_failed with a transient failure retried until the third attempt.
page_failed_retry(f, o) ==
    IF o \in Transient /\ Attempts(f) < 3
    THEN [f EXCEPT !.phase = "paging"]
    ELSE IF f.offset = 0
    THEN [f EXCEPT !.phase = "direct_done", !.climbs = << >>,
                   !.climbs_is_None = TRUE, !.error = error_of(o),
                   !.fault = o]
    ELSE [f EXCEPT !.phase = "direct_done", !.climbs = f.frc_all_climbs,
                   !.climbs_is_None = FALSE, !.error = None,
                   !.fault = o]

\* page_failed with the collected list returned together with the error.
page_failed_both(f, o) ==
    [f EXCEPT !.phase = "direct_done", !.climbs = f.frc_all_climbs,
              !.climbs_is_None = FALSE, !.error = error_of(o), !.fault = o]

\* page_failed with the pages already fetched thrown away on every failure.
page_failed_discard(f, o) ==
    [f EXCEPT !.phase = "direct_done", !.climbs = << >>,
              !.climbs_is_None = TRUE, !.error = error_of(o), !.fault = o]

\* Lines 171-193: a failed page request ends the call at once: (None, error)
\* on the first page, (all_climbs, None) on a later one.
page_failed(f, o) ==
    IF f.offset = 0
    THEN [f EXCEPT !.phase = "direct_done", !.climbs = << >>,
                   !.climbs_is_None = TRUE, !.error = error_of(o),
                   !.fault = o]
    ELSE [f EXCEPT !.phase = "direct_done", !.climbs = f.frc_all_climbs,
                   !.climbs_is_None = FALSE, !.error = None,
                   !.fault = o]

\* Lines 195-223: a page that arrived is flattened; the loop ends on a short
\* page and goes on to the next offset otherwise.
page_arrived(f, areas) ==
    LET got == extract_climbs(f.frc_all_climbs, areas)
        f1  == [f EXCEPT !.frc_all_climbs = got, !.pages = Append(@, areas)]
    IN  IF last_page(areas)
        THEN [f1 EXCEPT !.phase = "direct_done", !.climbs = got,
                        !.climbs_is_None = FALSE, !.error = None]
        ELSE [f1 EXCEPT !.phase = "paging", !.offset = next_offset(@)]

\* Lines 152-223 when every request is answered: the pagination loop from
\* `offset` on, with all_climbs collected so far.
RECURSIVE direct_fetch(_, _, _)
direct_fetch(tokens, offset, all_climbs) ==
    LET areas == AreasQuery(tokens, AREAS_PAGE_SIZE, offset)
        got   == extract_climbs(all_climbs, areas)
    IN  IF last_page(areas) THEN got
        ELSE direct_fetch(tokens, next_offset(offset), got)

\* ----------------------------------------------------------- fetch_region

\* known_large with USA missing from the list.
known_large_canada_only(tokens, uuid) ==
    tokens[Len(tokens)] \in {"Canada"} /\ uuid # ""

\* Line 231.
known_large(tokens, uuid) ==
    tokens[Len(tokens)] \in LARGE_REGIONS /\ uuid # ""

\* should_split with the gateway error 502 left out.
should_split_504_only(error) == error \in {"504"}

\* Line 246: only these errors make fetch_region split the region.
should_split(error) == error \in {"502", "504"}

\* extend with the list replaced by the new climbs.
extend_replace(list, more) == more

\* extend with the new climbs put in front.
extend_front(list, more) == more \o list

\* list.extend (lines 240, 268, 296).
extend(list, more) == list \o more

\* Lines 239, 267: the loop over the children has run out.
children_done(f) == f.idx > Len(f.children)

\* One activation of fetch_region(tokens, uuid, depth).  offset,
\* frc_all_climbs are the locals of its call of fetch_region_climbs and
\* climbs, climbs_is_None, error that call's result; children, idx,
\* all_climbs are the locals of the split.  reqs, pages, fault and
\* child_results record what the activation has requested and received.
NewFrame(tokens, uuid, depth) ==
    [tokens |-> tokens, uuid |-> uuid, depth |-> depth, phase |-> "enter",
     offset |-> 0, frc_all_climbs |-> << >>,
     climbs |-> << >>, climbs_is_None |-> FALSE, error |-> None,
     children |-> << >>, idx |-> 1, all_climbs |-> << >>,
     reqs |-> << >>, pages |-> << >>, fault |-> "none",
     child_results |-> << >>]

Req(kind, offset) == [kind |-> kind, offset |-> offset]

\* ------------------------------------------------------- filter and main

\* filter_climbs with a climb kept when any of its path tokens is a region.
filter_climbs_any_token(climbs, regions) ==
    IF regions = << >> THEN climbs
    ELSE SelectSeq(climbs, LAMBDA c : Range(c.pathTokens) \cap Range(regions) # {})

\* filter_climbs with the last path token looked at instead of the first.
filter_climbs_last_token(climbs, regions) ==
    IF regions = << >> THEN climbs
    ELSE SelectSeq(climbs, LAMBDA c : c.pathTokens # << >>
                        /\ c.pathTokens[Len(c.pathTokens)] \in Range(regions))

\* Lines 301-309.
filter_climbs(climbs, regions) ==
    IF regions = << >> THEN climbs
    ELSE SelectSeq(climbs, LAMBDA c : c.pathTokens # << >>
                                      /\ c.pathTokens[1] \in Range(regions))

\* main_except with the handler's sys.exit(1) forgotten.
main_except_exit_0(exc, code) ==
    IF exc # "SystemExit"
    THEN [exit_code |-> 0, trace |-> TRUE]
    ELSE [exit_code |-> code, trace |-> FALSE]

\* main_except with a bare `except:`, which catches SystemExit too.
main_except_bare(exc, code) == [exit_code |-> 1, trace |-> TRUE]

\* Lines 413-417 and sys.exit: `except Exception` catches every exception but
\* SystemExit, prints the trace and exits with 1; SystemExit leaves with its
\* own code and no trace.
main_except(exc, code) ==
    IF exc # "SystemExit"
    THEN [exit_code |-> 1, trace |-> TRUE]
    ELSE [exit_code |-> code, trace |-> FALSE]

\* The values of export.regions the model runs with.
Configs == { << >>, <<"Fakistan">> }

\* ------------------------------------------------------------ the state

VARIABLES
    pc,          \* where main is: "start", "countries", "export_tmp",
                 \* "export_load", "export_copy", "export_stats", "exited"
    config,      \* export.regions of config.yaml
    countries,   \* the countries of the listing (fetch_all_climbs)
    i,           \* the country the loop of fetch_all_climbs is at
    all_climbs,  \* the accumulation of fetch_all_climbs
    stack,       \* the activations of fetch_region, the innermost last
    climbs,      \* main's climbs after filtering
    exit_code,   \* the process exit code, -1 while it runs
    trace,       \* whether a stack trace was printed
    files,       \* the files on disk: "tmp", "parquet", "stats"
    export_calls,\* how many times export_to_parquet was invoked
    listing_outcome, \* what happened to the countries query, "none" before it
    faults,      \* how many requests have failed so far
    ret,         \* the last return of fetch_region
    flt          \* the applications of filter_climbs to chosen inputs

vars == <<pc, config, countries, i, all_climbs, stack, climbs, exit_code,
          trace, files, export_calls, listing_outcome, faults, ret, flt>>

\* No activation of fetch_region has returned yet.
NoRet == [frame |-> NewFrame(<< >>, "", 0), value |-> << >>, how |-> "none"]

\* filter_climbs has been applied to nothing.
NoFilter ==
    [climbs |-> << >>, s1 |-> << >>, s2 |-> << >>, step |-> 0,
     first |-> << >>, second |-> << >>, again |-> << >>, both |-> << >>]

Init ==
    /\ pc = "start"
    /\ config \in Configs
    /\ countries = << >>
    /\ i = 1
    /\ all_climbs = << >>
    /\ stack = << >>
    /\ climbs = << >>
    /\ exit_code = -1
    /\ trace = FALSE
    /\ files = {}
    /\ export_calls = 0
    /\ listing_outcome = "none"
    /\ faults = 0
    /\ ret = NoRet
    /\ flt = NoFilter

Top == stack[Len(stack)]

\* A request with outcome o: the server fails at most MaxFaults requests.
Request(o) ==
    /\ IsFault(o) => faults < MaxFaults
    /\ faults' = IF IsFault(o) THEN faults + 1 ELSE faults

\* The process ends: by an exception that reaches main, or by sys.exit(code).
Exit(exc, code) ==
    /\ pc' = "exited"
    /\ exit_code' = main_except(exc, code).exit_code
    /\ trace' = main_except(exc, code).trace
    /\ stack' = << >>

\* fetch_region returns `value`: the caller extends its list with it (lines
\* 240, 268 in a parent activation, line 296 in fetch_all_climbs).
Return(f, value, how) ==
    /\ ret' = [frame |-> f, value |-> value, how |-> how]
    /\ IF Len(stack) = 1
       THEN /\ stack' = << >>
            /\ all_climbs' = extend(all_climbs, value)
            /\ i' = i + 1
       ELSE /\ stack' = [k \in 1..(Len(stack) - 1) |->
                           IF k = Len(stack) - 1
                           THEN [stack[k] EXCEPT
                                   !.all_climbs = extend(@, value),
                                   !.child_results =
                                       Append(@, [tokens |-> f.tokens,
                                                  value |-> value]),
                                   !.idx = @ + 1]
                           ELSE stack[k]]
            /\ UNCHANGED <<all_climbs, i>>

\* ---------------------------------------------------------- the actions

\* main, line 395, and fetch_all_climbs, lines 273-289: the countries are
\* listed (the configuration was loaded before, it is part of Init).  A status
\* other than 200, an "errors" body and every exception of the request raise
\* an exception, which main's handler ends the process on.
list_countries(o, listing) ==
    /\ pc = "start"
    /\ Request(o)
    /\ IF o = "ok"
       THEN /\ countries' = listing
            /\ listing_outcome' = o
            /\ pc' = "countries"
            /\ UNCHANGED <<exit_code, trace, stack>>
       ELSE /\ Exit("Exception", 1)
            /\ listing_outcome' = o
            /\ UNCHANGED countries
    /\ UNCHANGED <<config, i, all_climbs, climbs, files, export_calls, ret>>
    /\ UNCHANGED flt

\* fetch_all_climbs, lines 292-295: fetch_region is called for the next
\* country, with its name as the path and its uuid.
next_country ==
    /\ pc = "countries"
    /\ stack = << >>
    /\ i <= Len(countries)
    /\ stack' = << NewFrame(<<countries[i].areaName>>, countries[i].uuid, 0) >>
    /\ UNCHANGED <<pc, config, countries, i, all_climbs, climbs, exit_code,
                   trace, files, export_calls, listing_outcome, faults, ret>>
    /\ UNCHANGED flt

\* fetch_region, lines 231-237: a known large region with a uuid is split at
\* once; its children are asked for by uuid.  Every failure of the request
\* gives no children (lines 119-127).
split_known_large(o) ==
    /\ pc = "countries"
    /\ stack # << >>
    /\ Top.phase = "enter"
    /\ known_large(Top.tokens, Top.uuid)
    /\ Request(o)
    /\ LET children == IF o = "ok" THEN ChildrenByUuidQuery(Top.uuid)
                       ELSE << >>
           f == [Top EXCEPT !.reqs = Append(@, Req("children_uuid", 0)),
                            !.children = children, !.phase = "children"]
       IN  IF children = << >>
           THEN Return(f, << >>, "no_children")
           ELSE /\ stack' = [stack EXCEPT ![Len(stack)] = f]
                /\ UNCHANGED <<all_climbs, i, ret>>
    /\ UNCHANGED <<pc, config, countries, climbs, exit_code, trace, files,
                   export_calls, listing_outcome>>
    /\ UNCHANGED flt

\* fetch_region_climbs, lines 156-223: one turn of the pagination loop; the
\* first turn is the call of line 244.
fetch_page(o) ==
    /\ pc = "countries"
    /\ stack # << >>
    /\ \/ Top.phase = "enter" /\ ~known_large(Top.tokens, Top.uuid)
       \/ Top.phase = "paging"
    /\ Request(o)
    /\ LET f == [Top EXCEPT !.reqs = Append(@, Req("areas", Top.offset))]
       IN  IF o = "exception"
           THEN Exit("Exception", 1)
           ELSE /\ stack' = [stack EXCEPT ![Len(stack)] =
                      IF o = "ok"
                      THEN page_arrived(f, AreasQuery(f.tokens,
                                           AREAS_PAGE_SIZE, f.offset))
                      ELSE page_failed(f, o)]
                /\ UNCHANGED <<pc, exit_code, trace>>
    /\ UNCHANGED <<config, countries, i, all_climbs, climbs, files,
                   export_calls, listing_outcome, ret>>
    /\ UNCHANGED flt

\* fetch_region, lines 246-251: the direct fetch did not ask for a split; the
\* region gives its climbs, or nothing when the fetch reported an error.
return_direct ==
    /\ pc = "countries"
    /\ stack # << >>
    /\ Top.phase = "direct_done"
    /\ ~should_split(Top.error)
    /\ IF Top.error # None
       THEN Return(Top, << >>, "failed")
       ELSE Return(Top, Top.climbs, "direct")
    /\ UNCHANGED <<pc, config, countries, climbs, exit_code, trace, files,
                   export_calls, listing_outcome, faults>>
    /\ UNCHANGED flt

\* split_on_timeout with the children always asked for by path.
split_on_timeout_by_path(o) ==
    /\ pc = "countries"
    /\ stack # << >>
    /\ Top.phase = "direct_done"
    /\ should_split(Top.error)
    /\ Request(o)
    /\ LET by_uuid  == FALSE
           children == IF o # "ok" THEN << >>
                       ELSE IF by_uuid THEN ChildrenByUuidQuery(Top.uuid)
                       ELSE ChildrenByPathQuery(Top.tokens)
           kind == IF by_uuid THEN "children_uuid" ELSE "children_path"
           f == [Top EXCEPT !.reqs = Append(@, Req(kind, 0)),
                            !.children = children, !.phase = "children"]
       IN  IF children = << >>
           THEN Return(f, << >>, "no_children")
           ELSE /\ stack' = [stack EXCEPT ![Len(stack)] = f]
                /\ UNCHANGED <<all_climbs, i, ret>>
    /\ UNCHANGED <<pc, config, countries, climbs, exit_code, trace, files,
                   export_calls, listing_outcome>>
    /\ UNCHANGED flt

\* fetch_region, lines 253-265: the direct fetch timed out; the children are
\* asked for, by uuid when the region has one and by path otherwise.  Every
\* failure of the request gives no children (lines 119-127, 138-148).
split_on_timeout(o) ==
    /\ pc = "countries"
    /\ stack # << >>
    /\ Top.phase = "direct_done"
    /\ should_split(Top.error)
    /\ Request(o)
    /\ LET by_uuid  == Top.uuid # ""
           children == IF o # "ok" THEN << >>
                       ELSE IF by_uuid THEN ChildrenByUuidQuery(Top.uuid)
                       ELSE ChildrenByPathQuery(Top.tokens)
           kind == IF by_uuid THEN "children_uuid" ELSE "children_path"
           f == [Top EXCEPT !.reqs = Append(@, Req(kind, 0)),
                            !.children = children, !.phase = "children"]
       IN  IF children = << >>
           THEN Return(f, << >>, "no_children")
           ELSE /\ stack' = [stack EXCEPT ![Len(stack)] = f]
                /\ UNCHANGED <<all_climbs, i, ret>>
    /\ UNCHANGED <<pc, config, countries, climbs, exit_code, trace, files,
                   export_calls, listing_outcome>>
    /\ UNCHANGED flt

\* fetch_region, lines 239-240 and 267-268: the next child is fetched, by
\* its path and without a uuid.
call_child ==
    /\ pc = "countries"
    /\ stack # << >>
    /\ Top.phase = "children"
    /\ ~children_done(Top)
    /\ stack' = Append(stack, NewFrame(Top.tokens \o <<Top.children[Top.idx]>>,
                                       "", Top.depth + 1))
    /\ UNCHANGED <<pc, config, countries, i, all_climbs, climbs, exit_code,
                   trace, files, export_calls, listing_outcome, faults, ret>>
    /\ UNCHANGED flt

\* fetch_region, lines 241 and 269: every child was fetched.
return_children ==
    /\ pc = "countries"
    /\ stack # << >>
    /\ Top.phase = "children"
    /\ children_done(Top)
    /\ Return(Top, Top.all_climbs, "split")
    /\ UNCHANGED <<pc, config, countries, climbs, exit_code, trace, files,
                   export_calls, listing_outcome, faults>>
    /\ UNCHANGED flt

\* fetch_all_climbs, lines 298-299, and main, lines 397-409: nothing fetched
\* or nothing left after filtering ends the process with sys.exit(1);
\* otherwise export_to_parquet is called.
after_fetch ==
    /\ pc = "countries"
    /\ stack = << >>
    /\ i > Len(countries)
    /\ LET filtered == filter_climbs(all_climbs, config)
       IN  IF all_climbs = << >> \/ filtered = << >>
           THEN /\ Exit("SystemExit", 1)
                /\ UNCHANGED <<climbs, export_calls>>
           ELSE /\ climbs' = filtered
                /\ export_calls' = export_calls + 1
                /\ pc' = "export_tmp"
                /\ UNCHANGED <<exit_code, trace, stack>>
    /\ UNCHANGED <<config, countries, i, all_climbs, files, listing_outcome,
                   faults, ret>>
    /\ UNCHANGED flt

\* What a step of export_to_parquet may do: succeed or raise.
Steps == {"ok", "raise"}

\* export_to_parquet, lines 313-325: the climbs are written to a temporary
\* JSON file, which stays on disk (delete=False).  The step may raise before
\* the file exists ("raise": the connection, the creation of the file) or
\* while it is written ("raise_dump"), and then the file is left behind.
export_tmp(o) ==
    /\ pc = "export_tmp"
    /\ IF o = "ok"
       THEN /\ files' = files \cup {"tmp"}
            /\ pc' = "export_load"
            /\ UNCHANGED <<exit_code, trace, stack>>
       ELSE /\ Exit("Exception", 1)
            /\ files' = IF o = "raise_dump" THEN files \cup {"tmp"}
                        ELSE files
    /\ UNCHANGED <<config, countries, i, all_climbs, climbs, export_calls,
                   listing_outcome, faults, ret>>
    /\ UNCHANGED flt

\* export_load with the file deleted only after a load that succeeded.
export_load_no_finally(o) ==
    /\ pc = "export_load"
    /\ files' = IF o = "ok" THEN files \ {"tmp"} ELSE files
    /\ IF o = "ok"
       THEN /\ pc' = "export_copy"
            /\ UNCHANGED <<exit_code, trace, stack>>
       ELSE Exit("Exception", 1)
    /\ UNCHANGED <<config, countries, i, all_climbs, climbs, export_calls,
                   listing_outcome, faults, ret>>
    /\ UNCHANGED flt

\* export_to_parquet, lines 327-335: the file is measured and loaded; the
\* finally clause deletes it whether or not that raised.
export_load(o) ==
    /\ pc = "export_load"
    /\ files' = files \ {"tmp"}
    /\ IF o = "ok"
       THEN /\ pc' = "export_copy"
            /\ UNCHANGED <<exit_code, trace, stack>>
       ELSE Exit("Exception", 1)
    /\ UNCHANGED <<config, countries, i, all_climbs, climbs, export_calls,
                   listing_outcome, faults, ret>>
    /\ UNCHANGED flt

\* export_to_parquet, lines 337-349: the schema is read and the COPY writes
\* the parquet file.
export_copy(o) ==
    /\ pc = "export_copy"
    /\ IF o = "ok"
       THEN /\ files' = files \cup {"parquet"}
            /\ pc' = "export_stats"
            /\ UNCHANGED <<exit_code, trace, stack>>
       ELSE /\ Exit("Exception", 1)
            /\ UNCHANGED files
    /\ UNCHANGED <<config, countries, i, all_climbs, climbs, export_calls,
                   listing_outcome, faults, ret>>
    /\ UNCHANGED flt

\* export_to_parquet, lines 351-381, and main, line 411: the statistics file
\* is written, the sample is printed, and the process ends normally.
export_stats(o) ==
    /\ pc = "export_stats"
    /\ IF o = "ok"
       THEN /\ files' = files \cup {"stats"}
            /\ pc' = "exited"
            /\ exit_code' = 0
            /\ UNCHANGED <<trace, stack>>
       ELSE /\ Exit("Exception", 1)
            /\ UNCHANGED files
    /\ UNCHANGED <<config, countries, i, all_climbs, climbs, export_calls,
                   listing_outcome, faults, ret>>
    /\ UNCHANGED flt

Next ==
    \/ \E o \in Outcomes, listing \in Listings : list_countries(o, listing)
    \/ next_country
    \/ \E o \in Outcomes : split_known_large(o)
    \/ \E o \in Outcomes : fetch_page(o)
    \/ return_direct
    \/ \E o \in Outcomes : split_on_timeout(o)
    \/ call_child
    \/ return_children
    \/ after_fetch
    \/ \E o \in Steps \cup {"raise_dump"} : export_tmp(o)
    \/ \E o \in Steps : export_load(o)
    \/ \E o \in Steps : export_copy(o)
    \/ \E o \in Steps : export_stats(o)

Spec == Init /\ [][Next]_vars

\* The program runs on: every step that can be taken is taken in the end.
FairSpec == Spec /\ WF_vars(Next)

\* ------------------------------------- filter_climbs on chosen inputs

\* The longest climb sequence filter_climbs is tried on.
MaxClimbs == 3

\* The climbs and the region lists filter_climbs is tried on.
FilterClimbs ==
    { Climb("f1", <<"USA", "Canada">>, "37", "-119"),
      Climb("f2", <<"Fakistan", "Hunza">>, "36", "74"),
      Climb("f3", <<"Canada">>, "56", "-106"),
      Climb("f4", << >>, "null", "null") }

FilterRegions ==
    { << >>, <<"USA">>, <<"Canada">>, <<"Fakistan">>,
      <<"USA", "Fakistan">>, <<"Canada", "Fakistan">> }

SeqsUpTo(S, n) == UNION {[1..k -> S] : k \in 0..n}

\* The regions of both lists.
Intersect(s1, s2) == SelectSeq(s1, LAMBDA r : r \in Range(s2))

FilterInit ==
    /\ pc = "start"
    /\ config = << >>
    /\ countries = << >>
    /\ i = 1
    /\ all_climbs = << >>
    /\ stack = << >>
    /\ climbs = << >>
    /\ exit_code = -1
    /\ trace = FALSE
    /\ files = {}
    /\ export_calls = 0
    /\ listing_outcome = "none"
    /\ faults = 0
    /\ ret = NoRet
    /\ \E c \in SeqsUpTo(FilterClimbs, MaxClimbs), s1, s2 \in FilterRegions :
          flt = [NoFilter EXCEPT !.climbs = c, !.s1 = s1, !.s2 = s2]

RunUnchanged ==
    UNCHANGED <<pc, config, countries, i, all_climbs, stack, climbs,
                exit_code, trace, files, export_calls, listing_outcome,
                faults, ret>>

\* filter_climbs(climbs, S1).
filter_first ==
    /\ flt.step = 0
    /\ flt' = [flt EXCEPT !.step = 1,
                          !.first = filter_climbs(flt.climbs, flt.s1)]
    /\ RunUnchanged

\* filter_climbs(filter_climbs(climbs, S1), S2).
filter_second ==
    /\ flt.step = 1
    /\ flt' = [flt EXCEPT !.step = 2,
                          !.second = filter_climbs(flt.first, flt.s2)]
    /\ RunUnchanged

\* filter_climbs(filter_climbs(climbs, S1), S1).
filter_again ==
    /\ flt.step = 2
    /\ flt' = [flt EXCEPT !.step = 3,
                          !.again = filter_climbs(flt.first, flt.s1)]
    /\ RunUnchanged

\* filter_climbs(climbs, S1 \cap S2).
filter_both ==
    /\ flt.step = 3
    /\ flt' = [flt EXCEPT !.step = 4,
                          !.both = filter_climbs(flt.climbs,
                                                 Intersect(flt.s1, flt.s2))]
    /\ RunUnchanged

FilterNext ==
    \/ filter_first
    \/ filter_second
    \/ filter_again
    \/ filter_both

FilterSpec == FilterInit /\ [][FilterNext]_vars

TypeOK ==
    /\ pc \in {"start", "countries", "export_tmp", "export_load",
               "export_copy", "export_stats", "exited"}
    /\ exit_code \in {-1, 0, 1}
    /\ faults \in 0..MaxFaults
    /\ files \subseteq {"tmp", "parquet", "stats"}

\* ----------------------------------------------- what the claims speak of

\* Every activation of fetch_region that runs, and the last that returned.
AllFrames ==
    Range(stack) \cup (IF ret.how # "none" THEN {ret.frame} ELSE {})

\* The activation's call of fetch_region_climbs has returned, after a failed
\* request or with every request answered.
FrcFailed(f) == f.fault # "none"

FrcSucceeded(f) == f.phase = "direct_done" /\ f.fault = "none"

\* The activation has asked for the region's children.
Discovered(f) ==
    \E k \in DOMAIN f.reqs : f.reqs[k].kind \in {"children_uuid", "children_path"}

AskedAreas(f) == \E k \in DOMAIN f.reqs : f.reqs[k].kind = "areas"

Uuids(cs) == [k \in DOMAIN cs |-> cs[k].uuid]

RECURSIVE Concat(_)
Concat(seqs) ==
    IF seqs = << >> THEN << >> ELSE Head(seqs) \o Concat(Tail(seqs))

\* The climbs of the pages as the server sent them, page by page, area by
\* area, climb by climb.
RawClimbs(pages) ==
    LET areas == Concat(pages)
    IN  Concat([k \in DOMAIN areas |-> areas[k].climbs])

\* The same climbs after enrichment.
EnrichedClimbs(pages) ==
    LET areas == Concat(pages)
    IN  Concat([k \in DOMAIN areas |-> area_climbs(areas[k])])

\* The pages the activation received are those at offsets 0, P, 2P, ...
PagesInOffsetOrder(f) ==
    \A k \in DOMAIN f.pages :
        /\ f.reqs[k] = Req("areas", (k - 1) * AREAS_PAGE_SIZE)
        /\ f.pages[k] = AreasQuery(f.tokens, AREAS_PAGE_SIZE,
                                   (k - 1) * AREAS_PAGE_SIZE)

\* ------------------------------------------------------------------ C1

\* C1: when every leaf-area page request of a region succeeds,
\* fetch_region_climbs returns (climbs, None) and climbs holds the climbs of
\* the pages fetched at offsets 0, P, 2P, ..., in page, area and climb order,
\* each exactly as often as the pages hold it.
C1_PagesConcatenated ==
    \A f \in AllFrames :
        FrcSucceeded(f) =>
            /\ f.error = None
            /\ ~f.climbs_is_None
            /\ Len(f.reqs) = Len(f.pages)
            /\ PagesInOffsetOrder(f)
            /\ Uuids(f.climbs) = Uuids(RawClimbs(f.pages))

\* A region fetched in two pages, the second not empty.
C1_Witness ==
    \E f \in AllFrames :
        /\ FrcSucceeded(f)
        /\ Len(f.pages) = 2
        /\ f.pages[2] # << >>
        /\ Len(f.climbs) >= 3

\* ------------------------------------------------------------------ C2

C3_LaterPageFailureKeepsPages ==
    /\ \A f \in AllFrames :
          (FrcFailed(f) /\ f.offset > 0) =>
              /\ f.phase = "direct_done"
              /\ f.error = None
              /\ ~f.climbs_is_None
              /\ f.climbs = EnrichedClimbs(f.pages)
              /\ f.pages # << >>
              /\ PagesInOffsetOrder(f)
              /\ Len(f.reqs) = Len(f.pages) + 1
              /\ f.reqs[Len(f.reqs)] = Req("areas", f.offset)
    /\ (ret.how # "none" /\ FrcFailed(ret.frame) /\ ret.frame.offset > 0) =>
          ret.value = ret.frame.climbs

\* A region whose second page failed returned the climbs of its first page.
C3_Witness ==
    /\ ret.how = "direct"
    /\ FrcFailed(ret.frame)
    /\ ret.frame.offset > 0
    /\ ret.value # << >>

\* ------------------------------------------------------------------ C4

\* The direct fetch of the activation failed on its first page.
FirstPageFailed(f, kinds) == f.fault \in kinds /\ f.offset = 0

\* C4, as claimed: whenever the direct fetch of a region fails on its first
\* page by a timeout or a status 502, 503 or 504, fetch_region asks for the
\* region's children.
C4_SplitOnOverload ==
    (ret.how # "none" /\ FirstPageFailed(ret.frame, Transient)) =>
        Discovered(ret.frame)

\* C4, amended: fetch_region asks for the region's children, and fetches each
\* child found, whenever the first page failed by a timeout or a status 502
\* or 504; after a first-page 503 (as after a GraphQL error) it asks for no
\* children and returns an empty result.
C4_SplitOnTimeout ==
    /\ \A f \in Range(stack) :
          (f.phase = "children" /\ ~known_large(f.tokens, f.uuid)) =>
              FirstPageFailed(f, {"timeout", "502", "504"})
    /\ ret.how # "none" =>
          /\ FirstPageFailed(ret.frame, {"timeout", "502", "504"}) =>
                /\ Discovered(ret.frame)
                /\ ret.how \in {"split", "no_children"}
                /\ Len(ret.frame.child_results) = Len(ret.frame.children)
          /\ FirstPageFailed(ret.frame, {"503", "graphql"}) =>
                /\ ~Discovered(ret.frame)
                /\ ret.how = "failed"
                /\ ret.value = << >>

\* A region whose first page answered 502 was split and its children fetched.
C4_Witness ==
    /\ ret.how = "split"
    /\ FirstPageFailed(ret.frame, {"502"})
    /\ ret.value # << >>

\* ------------------------------------------------------------------ C5

LastToken(f) == f.tokens[Len(f.tokens)]

\* C5, as claimed: a region named in LARGE_REGIONS, at any depth and with or
\* without a uuid, is never fetched directly: its first request is a
\* child-discovery request.
C5_LargeNeverFetched ==
    \A f \in AllFrames :
        (f.tokens # << >> /\ LastToken(f) \in LARGE_REGIONS) => ~AskedAreas(f)

\* C5, amended: a region named in LARGE_REGIONS whose uuid is known (a country
\* of the listing) is never fetched directly, and its first request asks for
\* its children by uuid; a region of such a name without a uuid (one reached
\* through a split) is fetched directly first.
C5_LargeWithUuidNeverFetched ==
    \A f \in AllFrames :
        (f.tokens # << >> /\ LastToken(f) \in LARGE_REGIONS) =>
            /\ f.uuid # "" => ~AskedAreas(f)
            /\ (f.uuid # "" /\ f.phase # "enter") =>
                  f.reqs[1] = Req("children_uuid", 0)
            /\ (f.uuid = "" /\ f.phase # "enter") =>
                  f.reqs[1] = Req("areas", 0)

\* The country USA was split without a direct fetch.
C5_Witness ==
    \E f \in AllFrames :
        /\ f.tokens = <<"USA">>
        /\ f.uuid # ""
        /\ f.reqs = << Req("children_uuid", 0) >>
        /\ f.children # << >>

\* ------------------------------------------------------------------ C6

\* fetch_all_climbs has gone through every country of the listing.
FetchDone ==
    /\ listing_outcome = "ok"
    /\ pc # "countries"
    /\ i > Len(countries)

\* Nothing to export: no climb fetched, or none left after filtering.
NothingToExport ==
    all_climbs = << >> \/ filter_climbs(all_climbs, config) = << >>

\* C6: a failure while a country is processed never aborts the run: once the
\* listing has arrived, the process ends only after every country of it was
\* processed, and it ends in failure before the export only when nothing is
\* there to export.
C6_CountryFailureNeverAborts ==
    (pc = "exited" /\ listing_outcome = "ok") =>
        /\ FetchDone
        /\ (exit_code = 1 /\ export_calls = 0) => NothingToExport

\* ------------------------------------------------------------------ C7

\* C7: when the countries query fails, the run aborts with exit code 1: no
\* region is fetched, export_to_parquet is not invoked and neither the
\* parquet file nor export-stats.json is written.
C7_ListingFailureAborts ==
    listing_outcome \notin {"none", "ok"} =>
        /\ pc = "exited"
        /\ exit_code = 1
        /\ countries = << >>
        /\ i = 1
        /\ stack = << >>
        /\ ret = NoRet
        /\ all_climbs = << >>
        /\ export_calls = 0
        /\ files = {}

\* The countries query was answered with GraphQL errors, or with a status
\* other than 200, and the process has ended.
C7_Witness ==
    /\ listing_outcome \in {"graphql", "503"}
    /\ pc = "exited"

\* ------------------------------------------------------------------ C8

\* C8: with nothing to export after the fetch or after the filter, the process
\* exits with code 1, without a stack trace, export_to_parquet not invoked and
\* no file written; it exits with code 0 only after export_to_parquet has run
\* to its end on the filtered climbs, which are not empty.
C8_EmptyExitsWithoutExport ==
    /\ (FetchDone /\ NothingToExport) =>
          /\ pc = "exited"
          /\ exit_code = 1
          /\ ~trace
          /\ export_calls = 0
          /\ files = {}
    /\ exit_code = 0 =>
          /\ pc = "exited"
          /\ FetchDone
          /\ export_calls = 1
          /\ climbs # << >>
          /\ climbs = filter_climbs(all_climbs, config)
          /\ files = {"parquet", "stats"}
    /\ export_calls > 0 => (FetchDone /\ ~NothingToExport)

\* Climbs were fetched, the filter left none, and the process exited with 1.
C8_Witness ==
    /\ pc = "exited"
    /\ FetchDone
    /\ all_climbs # << >>
    /\ filter_climbs(all_climbs, config) = << >>
    /\ exit_code = 1

\* ------------------------------------------------------------------ C9

ChildValues(f) == [k \in DOMAIN f.child_results |-> f.child_results[k].value]

\* C9: a split region gives the concatenation of the results of its children,
\* in the order child discovery returned them, and no climb of a direct fetch
\* of its own; a region that is not split gives its directly fetched climbs.
C9_SplitResultIsChildrenInOrder ==
    /\ \A f \in Range(stack) :
          f.phase = "children" =>
              /\ f.all_climbs = Concat(ChildValues(f))
              /\ Len(f.child_results) = f.idx - 1
              /\ \A k \in DOMAIN f.child_results :
                    f.child_results[k].tokens = f.tokens \o <<f.children[k]>>
    /\ ret.how = "split" =>
          /\ ret.value = Concat(ChildValues(ret.frame))
          /\ Len(ret.frame.child_results) = Len(ret.frame.children)
          /\ \A k \in DOMAIN ret.frame.child_results :
                ret.frame.child_results[k].tokens
                    = ret.frame.tokens \o <<ret.frame.children[k]>>
          /\ ret.frame.frc_all_climbs = << >>
    /\ ret.how = "direct" =>
          /\ ret.value = ret.frame.climbs
          /\ ~Discovered(ret.frame)

\* A region whose first page timed out had two children, both with climbs,
\* and gave the first child's climbs first.
C9_Witness ==
    /\ ret.how = "split"
    /\ ret.frame.fault = "timeout"
    /\ Len(ret.frame.children) = 2
    /\ \A k \in 1..2 : ret.frame.child_results[k].value # << >>
    /\ ret.value[1] = ret.frame.child_results[1].value[1]
    /\ Len(ret.value) = Len(ret.frame.child_results[1].value)
                          + Len(ret.frame.child_results[2].value)

\* ----------------------------------------------------------------- C10

\* The leaf areas below a region, and the depth of the tree.
NumLeafAreas(tokens) ==
    Len(SelectSeq(LeafAreas, LAMBDA a : IsPrefix(tokens, a.path)))

TreeDepth ==
    CHOOSE d \in {Len(LeafAreas[k].path) : k \in DOMAIN LeafAreas} :
        \A k \in DOMAIN LeafAreas : Len(LeafAreas[k].path) <= d

\* The recursion and the pagination stay within the tree, and a region for
\* which child discovery found nothing gives no climbs.
C10_Bounded ==
    /\ \A f \in Range(stack) :
          /\ Len(f.tokens) <= TreeDepth
          /\ f.offset <= NumLeafAreas(f.tokens)
    /\ Len(stack) <= TreeDepth
    /\ (ret.how # "none" /\ Discovered(ret.frame)
          /\ ret.frame.children = << >>) => ret.value = << >>
    /\ (ret.how # "none" /\ ret.frame.children = << >>) =>
          ret.how \in {"direct", "failed", "no_children"}

\* C10: over the finite area tree, whose leaf areas have no children,
\* fetch_region terminates whatever requests fail: the run reaches its end,
\* every branch of the recursion ends at a region that is not split or that
\* has no children, and a region without children gives no climbs.
C10_Terminates == <>(pc = "exited") /\ []C10_Bounded

\* A leaf area whose direct fetch timed out was found to have no children.
C10_Witness ==
    /\ ret.how = "no_children"
    /\ Len(ret.frame.tokens) = TreeDepth
    /\ ret.frame.reqs = << Req("areas", 0), Req("children_path", 0) >>
    /\ ret.value = << >>

\* ----------------------------------------------------------------- C11

Count(seq, x) == Cardinality({k \in DOMAIN seq : seq[k] = x})

SameBag(a, b) ==
    /\ Len(a) = Len(b)
    /\ \A x \in Range(a) \cup Range(b) : Count(a, x) = Count(b, x)

\* Every leaf area below the region lies below exactly one of the children.
ChildrenPartition(tokens, children) ==
    \A j \in DOMAIN LeafAreas :
        IsPrefix(tokens, LeafAreas[j].path) =>
            Cardinality({k \in DOMAIN children :
                IsPrefix(tokens \o <<children[k]>>, LeafAreas[j].path)}) = 1

\* The region was split and each child gave what its own direct fetch gives.
SplitIntoCompleteChildren ==
    /\ ret.how = "split"
    /\ ChildrenPartition(ret.frame.tokens, ret.frame.children)
    /\ Len(ret.frame.child_results) = Len(ret.frame.children)
    /\ \A k \in DOMAIN ret.frame.child_results :
          ret.frame.child_results[k].value
              = direct_fetch(ret.frame.child_results[k].tokens, 0, << >>)

\* C11: when the children of a region partition its leaf areas, the
\* concatenation of the children's results holds the same climbs, each as
\* often, as the direct fetch of the region gives.
C11_DecompositionExhaustive ==
    SplitIntoCompleteChildren =>
        SameBag(ret.value, direct_fetch(ret.frame.tokens, 0, << >>))

\* A region with two children, each with climbs, was split and every child
\* fetched completely.
C11_Witness ==
    /\ SplitIntoCompleteChildren
    /\ Len(ret.frame.children) = 2
    /\ \A k \in 1..2 : ret.frame.child_results[k].value # << >>
    /\ SameBag(ret.value, direct_fetch(ret.frame.tokens, 0, << >>))

\* ----------------------------------------------------------------- C12

\* The climbs of the pages as the server sent them, each with its area.
SourcePairs(pages) ==
    LET areas == Concat(pages)
    IN  Concat([k \in DOMAIN areas |->
                  [j \in DOMAIN areas[k].climbs |->
                      [climb |-> areas[k].climbs[j], area |-> areas[k]]]])

\* C12: a returned climb without path tokens at source has its area's; one
\* that lacked a latitude or a longitude at source, in an area that has both,
\* has its area's latitude and longitude; and a path-token or coordinate
\* value the climb had at source is unchanged.
C12_EnrichmentFromArea ==
    \A f \in AllFrames :
        \A k \in DOMAIN f.frc_all_climbs :
            LET out  == f.frc_all_climbs[k]
                src  == SourcePairs(f.pages)[k].climb
                area == SourcePairs(f.pages)[k].area
            IN  /\ src.pathTokens = << >> => out.pathTokens = area.pathTokens
                /\ src.pathTokens # << >> => out.pathTokens = src.pathTokens
                /\ ((src.lat = "null" \/ src.lng = "null")
                      /\ area.lat # "null" /\ area.lng # "null") =>
                        (out.lat = area.lat /\ out.lng = area.lng)
                /\ src.lat # "null" => out.lat = src.lat
                /\ src.lng # "null" => out.lng = src.lng

\* ----------------------------------------------------------------- C13

\* C13, as claimed: every climb fetch_region_climbs has collected, and every
\* climb fetch_all_climbs holds, carries path tokens that are not empty.
C13_PathTokensNeverEmpty ==
    /\ \A f \in AllFrames :
          \A k \in DOMAIN f.frc_all_climbs :
              f.frc_all_climbs[k].pathTokens # << >>
    /\ \A k \in DOMAIN all_climbs : all_climbs[k].pathTokens # << >>

\* C13, amended: a returned climb carries path tokens that are not empty
\* exactly when the climb or its containing area had such path tokens at
\* source; when both are absent or empty the climb is returned with empty
\* path tokens.
C13_PathTokensWhenAvailable ==
    \A f \in AllFrames :
        /\ Len(f.frc_all_climbs) = Len(SourcePairs(f.pages))
        /\ \A k \in DOMAIN f.frc_all_climbs :
              f.frc_all_climbs[k].pathTokens # << >>
                  <=> \/ SourcePairs(f.pages)[k].climb.pathTokens # << >>
                      \/ SourcePairs(f.pages)[k].area.pathTokens # << >>

\* A climb without path tokens at source was returned with its area's.
C13_Witness ==
    \E f \in AllFrames :
        \E k \in DOMAIN f.frc_all_climbs :
            /\ f.phase = "direct_done"
            /\ SourcePairs(f.pages)[k].climb.pathTokens = << >>
            /\ f.frc_all_climbs[k].pathTokens # << >>

\* ----------------------------------------------------------------- C14

\* C14, as claimed: for all region lists S1 and S2, filtering by S1 and then
\* by S2 gives what filtering once by their intersection gives.
C14_FilterTwiceIsIntersection ==
    flt.step = 4 => flt.second = flt.both

\* C14, amended: filtering by S1 and then by S2 gives what filtering once by
\* the intersection gives whenever S1, S2 and the intersection are not empty
\* (or S1 and S2 are both empty).  With S1 empty it gives the filter by S2,
\* with S2 empty the filter by S1, and with disjoint S1 and S2 nothing, while
\* the empty intersection keeps every climb.
C14_FilterTwiceIsNonEmptyIntersection ==
    flt.step = 4 =>
        /\ Intersect(flt.s1, flt.s2) # << >> => flt.second = flt.both
        /\ (flt.s1 = << >> /\ flt.s2 = << >>) => flt.second = flt.both
        /\ flt.s1 = << >> => flt.second = filter_climbs(flt.climbs, flt.s2)
        /\ flt.s2 = << >> => flt.second = flt.first
        /\ (flt.s1 # << >> /\ flt.s2 # << >>
              /\ Intersect(flt.s1, flt.s2) = << >>) =>
                (flt.second = << >> /\ flt.both = flt.climbs)

\* Two overlapping region lists, each of which dropped a climb.
C14_Witness ==
    /\ flt.step = 4
    /\ Intersect(flt.s1, flt.s2) # << >>
    /\ flt.s1 # flt.s2
    /\ flt.first # flt.climbs
    /\ flt.second # flt.first
    /\ flt.second # << >>
    /\ flt.second = flt.both

\* ----------------------------------------------------------------- C15

\* The climbs whose first path token is one of the regions, in their order;
\* every climb when there are no regions.
RECURSIVE Keep(_, _)
Keep(cs, regions) ==
    IF cs = << >> THEN << >>
    ELSE LET c == Head(cs)
             kept == \/ regions = << >>
                     \/ \E k \in DOMAIN regions :
                           /\ Len(c.pathTokens) >= 1
                           /\ c.pathTokens[1] = regions[k]
         IN  (IF kept THEN <<c>> ELSE << >>) \o Keep(Tail(cs), regions)

\* C15: filter_climbs keeps, in their order, exactly the climbs whose first
\* path token is in S (every climb when S is empty), and filtering its result
\* by S again changes nothing.
C15_FilterIdempotent ==
    /\ flt.step >= 1 => flt.first = Keep(flt.climbs, flt.s1)
    /\ flt.step >= 3 => flt.again = flt.first

\* A filter that dropped one climb and kept another was applied twice.
C15_Witness ==
    /\ flt.step >= 3
    /\ flt.s1 # << >>
    /\ flt.first # << >>
    /\ flt.first # flt.climbs
    /\ flt.again = flt.first

\* ------------------------------------------------------------------ C16

\* The activation of fetch_region at the bottom of the stack is the one
\* fetch_all_climbs made for the country it is at.
CountryFrame ==
    stack # << >> =>
        /\ i \in DOMAIN countries
        /\ stack[1].tokens = <<countries[i].areaName>>
        /\ stack[1].uuid = countries[i].uuid
        /\ \A k \in DOMAIN stack : stack[k].tokens[1] = countries[i].areaName

\* What every country of the listing gives when no request fails, country by
\* country in the order of the listing.
PerCountryResults ==
    Concat([k \in DOMAIN countries |->
                direct_fetch(<<countries[k].areaName>>, 0, << >>)])

\* One step of fetch_all_climbs: a country is entered only at the listing's
\* position i, and the accumulated list changes only when that country's
\* activation returns, by having the returned list appended.
CountryStep ==
    LET returns == Len(stack) = 1 /\ stack' = << >> /\ pc' = "countries"
    IN  /\ (stack = << >> /\ stack' # << >>) =>
              /\ i \in DOMAIN countries
              /\ stack' = <<NewFrame(<<countries[i].areaName>>,
                                     countries[i].uuid, 0)>>
        /\ returns =>
              /\ ret'.frame.tokens = <<countries[i].areaName>>
              /\ all_climbs' = all_climbs \o ret'.value
              /\ i' = i + 1
        /\ (~returns /\ pc = "countries" /\ pc' = "countries") =>
              /\ all_climbs' = all_climbs
              /\ i' = i

\* C16: fetch_all_climbs processes the countries one after the other in the
\* order of the listing, each as one top-level region fully processed before
\* the next one starts, and the list it returns is the concatenation of the
\* per-country results in that order.
C16_CountriesInListingOrder ==
    /\ [](CountryFrame
          /\ ((FetchDone /\ faults = 0) => all_climbs = PerCountryResults))
    /\ [][CountryStep]_vars

\* Both countries of a listing were processed, Fakistan first, and the list
\* holds Fakistan's climbs before those of the USA.
C16_Witness ==
    /\ FetchDone
    /\ Len(countries) = 2
    /\ countries[1].areaName = "Fakistan"
    /\ all_climbs # << >>
    /\ all_climbs = PerCountryResults
    /\ all_climbs[1] \in Range(direct_fetch(<<"Fakistan">>, 0, << >>))
    /\ all_climbs[Len(all_climbs)] \in Range(direct_fetch(<<"USA">>, 0, << >>))

\* ------------------------------------------------------------------ C17

\* C17: the pages of a region are requested at offsets 0, P, 2P, ... with the
\* fixed page size P, one request per offset; every page before the last is
\* full and the first page with fewer than P areas ends the pagination, so a
\* region with a non-zero multiple of P areas costs one more request, whose
\* page is empty.
C17_PaginationStopsOnShortPage ==
    \A f \in AllFrames :
        LET n == Len(f.pages)
        IN  /\ PagesInOffsetOrder(f)
            /\ \A k \in DOMAIN f.reqs :
                   f.reqs[k].kind = "areas" =>
                       /\ f.reqs[k].offset = (k - 1) * AREAS_PAGE_SIZE
                       /\ k <= NumLeafAreas(f.tokens) \div AREAS_PAGE_SIZE + 1
            /\ \A k \in 1..(n - 1) : Len(f.pages[k]) = AREAS_PAGE_SIZE
            /\ f.phase = "paging" =>
                   /\ f.offset = n * AREAS_PAGE_SIZE
                   /\ \A k \in 1..n : Len(f.pages[k]) = AREAS_PAGE_SIZE
            /\ FrcSucceeded(f) =>
                   /\ n = NumLeafAreas(f.tokens) \div AREAS_PAGE_SIZE + 1
                   /\ Len(f.pages[n]) = NumLeafAreas(f.tokens) % AREAS_PAGE_SIZE
                   /\ Len(SelectSeq(f.reqs, LAMBDA r : r.kind = "areas")) = n

\* A region whose number of areas is a non-zero multiple of the page size was
\* fetched: its last page is the empty one.
C17_Witness ==
    \E f \in AllFrames :
        /\ FrcSucceeded(f)
        /\ NumLeafAreas(f.tokens) > 0
        /\ NumLeafAreas(f.tokens) % AREAS_PAGE_SIZE = 0
        /\ Len(f.pages) = NumLeafAreas(f.tokens) \div AREAS_PAGE_SIZE + 1
        /\ f.pages[Len(f.pages)] = << >>

\* ------------------------------------------------------------------ C18

DiscoveryReqs(f) ==
    SelectSeq(f.reqs, LAMBDA r : r.kind \in {"children_uuid", "children_path"})

\* C18: the children of a region are asked for by the region's identifier
\* when it has one, and only top-level regions have one; otherwise by the
\* region's path.  A child is processed under the parent's path with the
\* child's name appended and with no identifier, so below the top level
\* discovery is always by path.
C18_DiscoveryByUuidOnlyAtTop ==
    /\ \A f \in AllFrames :
           /\ Len(DiscoveryReqs(f)) <= 1
           /\ f.phase = "children" => Len(DiscoveryReqs(f)) = 1
           /\ (f.phase # "children") => DiscoveryReqs(f) = << >>
           /\ f.tokens # << >> => (f.uuid # "" <=> Len(f.tokens) = 1)
           /\ \A k \in DOMAIN f.reqs :
                  /\ f.reqs[k].kind = "children_uuid" => f.uuid # ""
                  /\ f.reqs[k].kind = "children_path" => f.uuid = ""
    /\ \A k \in DOMAIN stack :
           k > 1 =>
               /\ stack[k - 1].phase = "children"
               /\ stack[k - 1].idx \in DOMAIN stack[k - 1].children
               /\ stack[k].tokens =
                      Append(stack[k - 1].tokens,
                             stack[k - 1].children[stack[k - 1].idx])
               /\ stack[k].uuid = ""

\* A country was split by identifier, and a child of it, being processed
\* under the extended path, was split by path.
C18_Witness ==
    /\ Len(stack) = 3
    /\ DiscoveryReqs(stack[1]) = <<Req("children_uuid", 0)>>
    /\ DiscoveryReqs(stack[2]) = <<Req("children_path", 0)>>
    /\ Len(stack[3].tokens) = 3

\* ------------------------------------------------------------------ C19

\* C19: once the temporary file is created and written, the step that loads
\* it deletes it, whether the load succeeds or raises; no later step of the
\* export sees it, and it is not there beside the outputs.
C19_TmpFileAlwaysRemoved ==
    /\ []((pc \in {"export_copy", "export_stats"}
               \/ files \cap {"parquet", "stats"} # {})
          => "tmp" \notin files)
    /\ [][pc = "export_load" => ("tmp" \in files /\ "tmp" \notin files')]_vars

\* The load raised, the process ended in failure, and the file is gone.
C19_Witness ==
    /\ pc = "exited"
    /\ exit_code = 1
    /\ export_calls = 1
    /\ files = {}
    /\ all_climbs # << >>
    /\ faults = 0

\* ------------------------------------------------------------------ C20

\* The activation's call of fetch_region_climbs has returned.
FrcReturned(f) == f.phase \in {"direct_done", "children"} /\ AskedAreas(f)

\* C20: fetch_region_climbs returns either a list and no error or no list and
\* an error, never both and never neither; fetch_region returns a list in
\* every case, and the lists that accumulate results only grow, by having
\* lists appended.
C20_ListXorError ==
    /\ [](/\ \A f \in AllFrames :
                 /\ FrcReturned(f) =>
                        /\ f.climbs_is_None <=> f.error # None
                        /\ f.climbs_is_None <=> (FrcFailed(f) /\ f.pages = << >>)
                        /\ f.climbs_is_None => f.climbs = << >>
                        /\ f.error # None => f.offset = 0
                 /\ ~FrcReturned(f) => (f.error = None /\ ~FrcFailed(f))
          /\ ret.how = "direct" =>
                 /\ ~ret.frame.climbs_is_None
                 /\ ret.value = ret.frame.climbs
          /\ ret.how \in {"failed", "no_children"} => ret.value = << >>
          /\ ret.how = "split" => ret.value = ret.frame.all_climbs)
    /\ [][/\ IsPrefix(all_climbs, all_climbs')
          /\ \A k \in DOMAIN stack \cap DOMAIN stack' :
                 stack'[k].tokens = stack[k].tokens =>
                     /\ IsPrefix(stack[k].all_climbs, stack'[k].all_climbs)
                     /\ IsPrefix(stack[k].frc_all_climbs,
                                 stack'[k].frc_all_climbs)]_vars

\* A region's fetch failed with an error that does not split it: no list and
\* an error came back, fetch_region returned the empty list, and the climbs
\* of the country before it are still accumulated.
C20_Witness ==
    /\ ret.how = "failed"
    /\ ret.frame.climbs_is_None
    /\ ret.frame.error # None
    /\ ret.value = << >>
    /\ all_climbs # << >>

====
